---- MODULE Spec2Model ----
(***************************************************************************)
(* Order / cart / inventory core of the e-commerce backend.                *)
(*                                                                         *)
(* Every request handler is an async function: it runs atomically from one *)
(* `await` to the next, and handlers of different requests interleave at   *)
(* the awaits.  A request occupies a slot; each action below is one        *)
(* await-to-await segment of one handler.  Documents are saved the way     *)
(* Mongoose saves them: only the modified paths are written.               *)
(***************************************************************************)
EXTENDS Integers, Sequences, FiniteSets, TLC

(* ------------------------------ bounds --------------------------------- *)

MaxOrders == 1
MaxCartItems == 2

\* cancelOrder requests are taken while they leave every stock within this
MaxStock == 3

Slots == {1, 2}
Products == {"p1", "p2"}
NoProduct == "p0"
ProductIds == Products \cup {NoProduct}
Customers == {"u1", "u2"}
Admins == {"adm"}
Users == Customers \cup Admins

Statuses == {"Processing", "Confirmed", "Shipped", "In Transit", "Delivered", "Cancelled"}

VARIABLES
    stock,     \* Product collection: product id -> persisted stock
    price,     \* Product collection: product id -> current price
    orders,    \* Order collection: sequence of order documents, id = index
    carts,     \* Cart collection: sequence of cart documents
    req,       \* slot -> the request in flight in it (handler position, locals)
    load,      \* what the clients send: how many requests at a time, and
               \* the identities and bodies they carry
    ledger,    \* ghost: initial stock minus committed plus released quantities,
               \* shifted by the staff's stock edits
    pre,       \* ghost: the database as the request found it, when requests run
               \* one at a time
    details,   \* Product collection: product id -> category, images, reviews
               \* and numReviews of the document
    productCount,  \* Category collection: category name -> productCount
    users      \* User collection: the ids of the user documents

vars == <<stock, price, orders, carts, req, load, ledger, pre, details,
          productCount, users>>

\* what the order and cart handlers never write
others == <<details, productCount, users>>

(* ------------------------------ helpers -------------------------------- *)

NoArg == [product |-> "none", size |-> "none", color |-> "none", quantity |-> 0,
          kind |-> "none", id |-> 0]

\* the request that was answered last, when requests run one at a time
last == req[1]

replied(op) == last.pc = "done" /\ last.op = op

\* the items of user u's cart in the cart collection cs
RECURSIVE itemsOf(_, _)
itemsOf(cs, u) ==
    IF cs = <<>> THEN <<>>
    ELSE IF Head(cs).user = u THEN Head(cs).items
    ELSE itemsOf(Tail(cs), u)

\* the positions in items that hold the tuple of the request's body
matching(items, a) ==
    {i \in 1..Len(items) : /\ items[i].product = a.product
                           /\ items[i].size = a.size
                           /\ items[i].color = a.color}

\* the user's cart as the last request found it, and as it is now
before == itemsOf(pre.carts, last.user)

after == itemsOf(carts, last.user)

NoAdd == [n |-> 0, arg |-> NoArg, appended |-> FALSE, id |-> 0]

\* ghost: what the last request added to the cart, if it was a successful
\* addToCart: the items the cart had before, the key, the item's id
Added ==
    IF replied("addToCart") /\ last.resp = 200 /\ matching(after, last.arg) # {}
    THEN [n |-> Len(before), arg |-> last.arg,
          appended |-> matching(before, last.arg) = {},
          id |-> after[CHOOSE i \in matching(after, last.arg) : TRUE].id]
    ELSE NoAdd

NoSnapshot == [stock |-> <<>>, orders |-> <<>>, carts |-> <<>>, add |-> NoAdd]

Snapshot == [stock |-> stock, orders |-> orders, carts |-> carts, add |-> Added]

Idle ==
    [op |-> "none", pc |-> "idle", user |-> "none", resp |-> 0,
     oid |-> 0, items |-> <<>>, idx |-> 0, rd |-> 0, status |-> "none",
     delivered |-> FALSE,
     arg |-> NoArg, cid |-> 0, stale |-> FALSE, write |-> "none", pos |-> 0,
     val |-> 0, price |-> 0, newitems |-> <<>>, category |-> "none",
     images |-> {}]

\* a request as it enters its handler
Begin(op, u) == [Idle EXCEPT !.op = op, !.user = u]

role(u) == IF u \in Admins THEN "admin" ELSE "user"

RECURSIVE SumQty(_, _)
SumQty(items, p) ==
    IF items = <<>> THEN 0
    ELSE (IF Head(items).product = p THEN Head(items).quantity ELSE 0)
         + SumQty(Tail(items), p)

\* a stock field with no validator
StockUnchecked(s) == TRUE

\* productSchema.stock: { type: Number, min: 0 } -- validated by product.save()
StockValid(s) == s >= 0

\* res.status(code) / next(new ErrorHandler(msg, code)): the request is answered
\* and what the handler held in its locals is gone; who asked for what, and the
\* answer, are kept for inspection when requests run one at a time
Answered(rec, code) ==
    IF load.width = 1
    THEN [Idle EXCEPT !.op = rec.op, !.user = rec.user, !.oid = rec.oid,
                      !.arg = rec.arg, !.items = rec.items,
                      !.pc = "done", !.resp = code]
    ELSE IF load.answers
    THEN [Idle EXCEPT !.op = rec.op, !.pc = "done", !.resp = code]
    ELSE Idle

Done(r, code) == Answered(req[r], code)

Finish(r, code) == req' = [req EXCEPT ![r] = Done(r, code)]

\* no request is running in slot r
free(r) == req[r].pc \in {"idle", "done"}

\* a new request enters its handler in the first free slot
Taken(r) ==
    /\ free(r)
    /\ r <= load.width
    /\ \A q \in Slots : q < r => ~free(q)
    /\ pre' = IF load.width = 1 THEN Snapshot ELSE pre
    /\ UNCHANGED load

\* the same, for a handler that writes no product detail, category or user
Accept(r) == Taken(r) /\ UNCHANGED others

\* the handler of op resumes after the await it is suspended at
Resumed(r, op, pc) ==
    /\ req[r].op = op
    /\ req[r].pc = pc
    /\ UNCHANGED <<load, pre>>

\* the same, for a handler that writes no product detail, category or user
Continue(r, op, pc) == Resumed(r, op, pc) /\ UNCHANGED others

\* req.user = await User.findById(decoded.id); if (!req.user) ... 401
protect(u) == u \in users

\* the for-loop over order items: on to the next item, or the final response
NextItem(r, code) ==
    IF req[r].idx < Len(req[r].items)
    THEN req' = [req EXCEPT ![r].idx = @ + 1, ![r].pc = "find"]
    ELSE Finish(r, code)

(* ---------------------------- createOrder ------------------------------ *)

\* product.stock -= item.quantity
decremented(s, q) == s - q

\* orderSchema.orderItems.quantity: { type: Number, min: 1 }
OrderQuantityValid(q) == q >= 1

\* an order that is born paid
createdPaid(u, items) ==
    [user |-> u, orderItems |-> items, status |-> "Processing",
     isPaid |-> TRUE, isDelivered |-> FALSE, shipped |-> FALSE,
     released |-> FALSE]

\* the document Order.create persists: status and flags take their defaults
\* whatever else the body carries (ghosts: shipped, the status has been Shipped
\* at some point; released, a cancelOrder has gone on to add the items back)
created(u, items) ==
    [user |-> u, orderItems |-> items, status |-> "Processing",
     isPaid |-> FALSE, isDelivered |-> FALSE, shipped |-> FALSE,
     released |-> FALSE]

\* validation, then Order.create(...): the order is persisted before any stock
\* moves.  given = FALSE is a body with no orderItems: the length check is
\* skipped, the order is created with the schema's empty array, and the loop
\* over the undefined list throws
createOrder(r, u, given, items) ==
    /\ Accept(r)
    /\ Len(orders) < MaxOrders
    /\ LET rec == [Begin("createOrder", u) EXCEPT !.items = items,
                      !.arg = [NoArg EXCEPT !.kind = IF given THEN "list"
                                                    ELSE "absent"]] IN
       IF ~protect(u)
       THEN /\ req' = [req EXCEPT ![r] = Answered(rec, 401)]
            /\ UNCHANGED orders
       ELSE IF given /\ items = <<>>
       THEN /\ req' = [req EXCEPT ![r] = Answered(rec, 400)]
            /\ UNCHANGED orders
       ELSE IF \E i \in 1..Len(items) : ~OrderQuantityValid(items[i].quantity)
       THEN /\ req' = [req EXCEPT ![r] = Answered(rec, 500)]
            /\ UNCHANGED orders
       ELSE IF ~given
       THEN /\ orders' = Append(orders, created(u, <<>>))
            /\ req' = [req EXCEPT ![r] =
                           Answered([rec EXCEPT !.oid = Len(orders) + 1], 500)]
       ELSE /\ orders' = Append(orders, created(u, items))
            /\ req' = [req EXCEPT ![r] = [rec EXCEPT !.pc = "find",
                                          !.oid = Len(orders) + 1, !.idx = 1]]
    /\ UNCHANGED <<stock, price, carts, ledger>>

\* const product = await Product.findById(item.product); if (product) ...
createOrder_findById(r) ==
    /\ Continue(r, "createOrder", "find")
    /\ LET item == req[r].items[req[r].idx] IN
       IF item.product \in DOMAIN stock
       THEN req' = [req EXCEPT ![r].rd = stock[item.product], ![r].pc = "save"]
       ELSE NextItem(r, 201)
    /\ UNCHANGED <<stock, price, orders, carts, ledger>>

\* product.stock -= item.quantity; await product.save()
createOrder_save(r) ==
    /\ Continue(r, "createOrder", "save")
    /\ LET item == req[r].items[req[r].idx]
           s == decremented(req[r].rd, item.quantity) IN
       IF StockValid(s)
       THEN /\ stock' = [stock EXCEPT ![item.product] = s]
            /\ ledger' = [ledger EXCEPT ![item.product] = @ - item.quantity]
            /\ NextItem(r, 201)
       ELSE /\ Finish(r, 500)
            /\ UNCHANGED <<stock, ledger>>
    /\ UNCHANGED <<price, orders, carts>>

(* ---------------------------- cancelOrder ------------------------------ *)

\* order.user.toString() !== req.user.id && req.user.role !== "admin"
notAuthorized(order, u) == order.user # u /\ role(u) # "admin"

\* a check that lets a delivered order through
shippedOnly(order) == order.status = "Shipped"

\* order.status === "Shipped" || order.status === "Delivered"
alreadyShipped(order) == order.status = "Shipped" \/ order.status = "Delivered"

\* a cancellation that gives nothing back
untouched(s, q) == s

\* product.stock += item.quantity
restored(s, q) == s + q

\* a cancellation that drops the order's items
emptied(order) == [order EXCEPT !.status = "Cancelled", !.orderItems = <<>>]

\* order.status = "Cancelled"
cancelled(order) == [order EXCEPT !.status = "Cancelled"]

cancelOrder(r, u, id) ==
    /\ Accept(r)
    /\ LET fin(code) == req' = [req EXCEPT ![r] =
                 Answered([Begin("cancelOrder", u) EXCEPT !.oid = id], code)] IN
       IF id \notin 1..Len(orders) THEN fin(404)
       ELSE IF notAuthorized(orders[id], u) THEN fin(401)
       ELSE IF alreadyShipped(orders[id]) THEN fin(400)
       ELSE /\ \A p \in DOMAIN stock :
                 stock[p] + SumQty(orders[id].orderItems, p) <= MaxStock
            /\ req' = [req EXCEPT ![r] = [Begin("cancelOrder", u) EXCEPT
                 !.oid = id, !.items = orders[id].orderItems,
                 !.status = IF orders[id].status = "Cancelled"
                            THEN "none" ELSE "Cancelled",
                 !.pc = "saveOrder"]]
    /\ UNCHANGED <<stock, price, orders, carts, ledger>>

\* order.status = "Cancelled"; await order.save(): written if it was modified
cancelOrder_saveOrder(r) ==
    /\ Continue(r, "cancelOrder", "saveOrder")
    /\ orders' = [orders EXCEPT ![req[r].oid] =
                     [(IF req[r].status = "none" THEN @ ELSE cancelled(@))
                         EXCEPT !.released = TRUE]]
    /\ IF req[r].items = <<>>
       THEN Finish(r, 200)
       ELSE req' = [req EXCEPT ![r].idx = 1, ![r].pc = "find"]
    /\ UNCHANGED <<stock, price, carts, ledger>>

\* const product = await Product.findById(item.product); if (product) ...
cancelOrder_findById(r) ==
    /\ Continue(r, "cancelOrder", "find")
    /\ LET item == req[r].items[req[r].idx] IN
       IF item.product \in DOMAIN stock
       THEN req' = [req EXCEPT ![r].rd = stock[item.product], ![r].pc = "save"]
       ELSE NextItem(r, 200)
    /\ UNCHANGED <<stock, price, orders, carts, ledger>>

\* product.stock += item.quantity; await product.save()
cancelOrder_save(r) ==
    /\ Continue(r, "cancelOrder", "save")
    /\ LET item == req[r].items[req[r].idx]
           s == restored(req[r].rd, item.quantity) IN
       IF StockValid(s)
       THEN /\ stock' = [stock EXCEPT ![item.product] = s]
            /\ ledger' = [ledger EXCEPT ![item.product] = @ + item.quantity]
            /\ NextItem(r, 200)
       ELSE /\ Finish(r, 500)
            /\ UNCHANGED <<stock, ledger>>
    /\ UNCHANGED <<price, orders, carts>>

(* ------------------------- updateOrderToPaid --------------------------- *)

\* the route is behind `protect` only; req.body.payer.email_address throws
\* when the body carries no payer
updateOrderToPaid(r, u, id, payer) ==
    /\ Accept(r)
    /\ LET rec == [Begin("updateOrderToPaid", u) EXCEPT !.oid = id,
                      !.arg = [NoArg EXCEPT !.kind = IF payer THEN "payer"
                                                    ELSE "nopayer"]]
           fin(code) == req' = [req EXCEPT ![r] = Answered(rec, code)] IN
       IF id \notin 1..Len(orders) THEN fin(404)
       ELSE IF ~payer THEN fin(500)
       ELSE req' = [req EXCEPT ![r] = [rec EXCEPT !.pc = "saveOrder"]]
    /\ UNCHANGED <<stock, price, orders, carts, ledger>>

\* a payment that also confirms the order
paidAndConfirmed(order) == [order EXCEPT !.isPaid = TRUE, !.status = "Confirmed"]

\* order.isPaid = true; order.paidAt = ...; order.paymentResult = ...
paid(order) == [order EXCEPT !.isPaid = TRUE]

\* await order.save(): the modified paths are written
updateOrderToPaid_save(r) ==
    /\ Continue(r, "updateOrderToPaid", "saveOrder")
    /\ orders' = [orders EXCEPT ![req[r].oid] = paid(@)]
    /\ Finish(r, 200)
    /\ UNCHANGED <<stock, price, carts, ledger>>

(* ------------------------- updateOrderStatus --------------------------- *)

\* a status change that never marks the delivery
neverDelivers(status) == FALSE

\* if (status === "Delivered") { order.isDelivered = true; ... }
delivers(status) == status = "Delivered"

\* the route is behind `protect, admin`; order.status = status || order.status
updateOrderStatus(r, u, id, status) ==
    /\ Accept(r)
    /\ LET rec == [Begin("updateOrderStatus", u) EXCEPT !.oid = id]
           fin(code) == req' = [req EXCEPT ![r] = Answered(rec, code)]
           save(st) == req' = [req EXCEPT ![r] = [rec EXCEPT
                 !.pc = "saveOrder", !.status = st,
                 !.delivered = delivers(status)]] IN
       IF role(u) # "admin" THEN fin(403)
       ELSE IF id \notin 1..Len(orders) THEN fin(404)
       ELSE IF status = "" \/ status = orders[id].status THEN save("none")
       ELSE save(status)
    /\ UNCHANGED <<stock, price, orders, carts, ledger>>

\* await order.save(): the modified paths are written
updateOrderStatus_save(r) ==
    /\ Continue(r, "updateOrderStatus", "saveOrder")
    /\ orders' = [orders EXCEPT
          ![req[r].oid].status = IF req[r].status = "none" THEN @ ELSE req[r].status,
          ![req[r].oid].isDelivered = IF req[r].delivered THEN TRUE ELSE @,
          ![req[r].oid].shipped = IF req[r].status = "Shipped" THEN TRUE ELSE @]
    /\ Finish(r, 200)
    /\ UNCHANGED <<stock, price, carts, ledger>>

(* -------------------------------- carts -------------------------------- *)

\* Cart.findOne({ user }): the first cart document of the user, 0 for null
RECURSIVE findOneFrom(_, _, _)
findOneFrom(cs, u, i) ==
    IF i > Len(cs) THEN 0
    ELSE IF cs[i].user = u THEN i
    ELSE findOneFrom(cs, u, i + 1)

findOne(u) == findOneFrom(carts, u, 1)

\* cart.items.findIndex(item => item.product.toString() === productId &&
\*   item.size === size && item.color === color): 0 stands for -1
RECURSIVE findIndexFrom(_, _, _, _, _)
findIndexFrom(items, p, size, color, i) ==
    IF i > Len(items) THEN 0
    ELSE IF items[i].product = p /\ items[i].size = size /\ items[i].color = color
         THEN i
    ELSE findIndexFrom(items, p, size, color, i + 1)

findIndex(items, p, size, color) == findIndexFrom(items, p, size, color, 1)

\* cart.items.id(itemId): the position of the item with that _id, 0 for null
RECURSIVE idFrom(_, _, _)
idFrom(items, id, i) ==
    IF i > Len(items) THEN 0
    ELSE IF items[i].id = id THEN i
    ELSE idFrom(items, id, i + 1)

\* a predicate that keeps no item
keptNothing(item, x) == FALSE

\* a predicate that looks at the item id only
keptById(item, x) == ~(x.kind = "item" /\ item.id = x.id)

\* item._id.toString() !== itemId && item.product.toString() !== itemId
kept(item, x) ==
    /\ ~(x.kind = "item" /\ item.id = x.id)
    /\ ~(x.kind = "product" /\ item.product = x.product)

\* cart.items.filter(...)
RECURSIVE filter(_, _)
filter(items, x) ==
    IF items = <<>> THEN <<>>
    ELSE IF kept(Head(items), x) THEN <<Head(items)>> \o filter(Tail(items), x)
    ELSE filter(Tail(items), x)

\* a stock check that never refuses
plentiful(s, q) == FALSE

\* product.stock < quantity
insufficient(s, q) == s < q

\* a merge that overwrites the quantity
replaced(q0, q) == q

\* cart.items[existingItemIndex].quantity + quantity
merged(q0, q) == q0 + q

\* a fresh _id for a pushed item
freshId(items) ==
    CHOOSE n \in 1..(Len(items) + 1) : \A i \in 1..Len(items) : items[i].id # n

\* cart item schema: quantity is a positive integer
QuantityValid(q) == q >= 1

\* cart schema: one cart per user
UserUnique(u) == findOne(u) = 0

\* a save that bumps the cart's __v: every other request that has read cart c
\* now holds a stale version
Bump(r, c) ==
    req' = [q \in Slots |->
              IF q = r THEN Done(r, 200)
              ELSE IF req[q].cid = c /\ ~free(q)
                   THEN [req[q] EXCEPT !.stale = TRUE]
              ELSE req[q]]

\* a merge that also takes the product's current price
requoted(item, q) ==
    [item EXCEPT !.quantity = q,
                 !.price = IF item.product \in DOMAIN price
                           THEN price[item.product] ELSE @]

\* cart.items[existingItemIndex].quantity = newQuantity
requantified(item, q) == [item EXCEPT !.quantity = q]

\* await cart.save() as Mongoose sends it: a new document is inserted unless the
\* user has a cart by now; a push is
\* a $push that bumps __v; a quantity set at a position is a $set guarded by the
\* __v that was read; an assigned array is a $set guarded by __v that bumps it.
\* The paths to be written are validated first.
CartSave(r) ==
    LET w == req[r].write
        c == req[r].cid
        a == req[r].arg
        item(id) == [id |-> id, product |-> a.product, size |-> a.size,
                     color |-> a.color, quantity |-> a.quantity,
                     price |-> req[r].price] IN
    CASE w = "none" -> Finish(r, 200) /\ UNCHANGED carts
      [] w = "insert" ->
            IF QuantityValid(a.quantity) /\ UserUnique(req[r].user)
            THEN /\ carts' = Append(carts, [user |-> req[r].user,
                                            items |-> <<item(1)>>])
                 /\ Finish(r, 200)
            ELSE Finish(r, 500) /\ UNCHANGED carts
      [] w = "push" ->
            IF QuantityValid(a.quantity)
            THEN /\ carts' = [carts EXCEPT ![c].items = Append(@, item(freshId(@)))]
                 /\ Bump(r, c)
            ELSE Finish(r, 500) /\ UNCHANGED carts
      [] w = "set" ->
            IF QuantityValid(req[r].val) /\ ~req[r].stale
            THEN /\ carts' = [carts EXCEPT
                       ![c].items[req[r].pos] = requantified(@, req[r].val)]
                 /\ Finish(r, 200)
            ELSE Finish(r, 500) /\ UNCHANGED carts
      [] w = "all" ->
            IF ~req[r].stale
            THEN /\ carts' = [carts EXCEPT ![c].items = req[r].newitems]
                 /\ Bump(r, c)
            ELSE Finish(r, 500) /\ UNCHANGED carts

\* addToCart requests of user u that have not answered yet, other than r
adding(r, u) ==
    {q \in Slots \ {r} : req[q].op = "addToCart" /\ req[q].user = u
                          /\ ~free(q)}

\* a request that may add an item is taken while the cart has room for it, or
\* holds the item already
room(r, u, pid, size, color) ==
    IF findOne(u) = 0 THEN TRUE
    ELSE IF findIndex(carts[findOne(u)].items, pid, size, color) > 0 THEN TRUE
    ELSE Len(carts[findOne(u)].items) + Cardinality(adding(r, u)) < MaxCartItems

(* ------------------------------- getCart ------------------------------- *)

\* let cart = await Cart.findOne({ user }); if (!cart) ...
getCart(r, u) ==
    /\ Accept(r)
    /\ IF findOne(u) # 0
       THEN req' = [req EXCEPT ![r] = Answered(Begin("getCart", u), 200)]
       ELSE req' = [req EXCEPT ![r] = [Begin("getCart", u) EXCEPT !.pc = "create"]]
    /\ UNCHANGED <<stock, price, orders, carts, ledger>>

\* cart = await Cart.create({ user, items: [] })
getCart_create(r) ==
    /\ Continue(r, "getCart", "create")
    /\ IF UserUnique(req[r].user)
       THEN /\ carts' = Append(carts, [user |-> req[r].user, items |-> <<>>])
            /\ Finish(r, 200)
       ELSE /\ Finish(r, 500)
            /\ UNCHANGED carts
    /\ UNCHANGED <<stock, price, orders, ledger>>

(* ------------------------------ addToCart ------------------------------ *)

\* const product = await Product.findById(productId); stock check
addToCart(r, u, pid, quantity, size, color) ==
    /\ Accept(r)
    /\ room(r, u, pid, size, color)
    /\ LET a == [NoArg EXCEPT !.product = pid, !.quantity = quantity,
                              !.size = size, !.color = color]
           rec == [Begin("addToCart", u) EXCEPT !.arg = a]
           fin(code) == req' = [req EXCEPT ![r] = Answered(rec, code)] IN
       IF pid \notin DOMAIN stock THEN fin(404)
       ELSE IF insufficient(stock[pid], quantity) THEN fin(400)
       ELSE req' = [req EXCEPT ![r] = [rec EXCEPT !.rd = stock[pid],
                       !.price = price[pid], !.pc = "findCart"]]
    /\ UNCHANGED <<stock, price, orders, carts, ledger>>

\* let cart = await Cart.findOne({ user }); merge into the item or push a new one
addToCart_findOne(r) ==
    /\ Continue(r, "addToCart", "findCart")
    /\ LET c == findOne(req[r].user)
           items == IF c = 0 THEN <<>> ELSE carts[c].items
           a == req[r].arg
           i == findIndex(items, a.product, a.size, a.color) IN
       IF i > 0
       THEN LET newQuantity == merged(items[i].quantity, a.quantity) IN
            IF insufficient(req[r].rd, newQuantity)
            THEN Finish(r, 400)
            ELSE req' = [req EXCEPT ![r].cid = c,
                     ![r].pos = i, ![r].val = newQuantity,
                     ![r].write = IF newQuantity = items[i].quantity
                                  THEN "none" ELSE "set",
                     ![r].pc = "saveCart"]
       ELSE req' = [req EXCEPT ![r].cid = c,
                     ![r].write = IF c = 0 THEN "insert" ELSE "push",
                     ![r].pc = "saveCart"]
    /\ UNCHANGED <<stock, price, orders, carts, ledger>>

addToCart_save(r) ==
    /\ Continue(r, "addToCart", "saveCart")
    /\ CartSave(r)
    /\ UNCHANGED <<stock, price, orders, ledger>>

(* ---------------------------- updateCartItem --------------------------- *)

\* quantity check; const cart = await Cart.findOne(...); cart.items.id(itemId)
updateCartItem(r, u, itemId, quantity) ==
    /\ Accept(r)
    /\ LET c == findOne(u)
           i == IF c = 0 THEN 0 ELSE idFrom(carts[c].items, itemId, 1)
           a == [NoArg EXCEPT !.kind = "item", !.id = itemId, !.quantity = quantity]
           fin(code) == req' = [req EXCEPT ![r] =
                 Answered([Begin("updateCartItem", u) EXCEPT !.arg = a], code)] IN
       IF quantity < 1 THEN fin(400)
       ELSE IF c = 0 THEN fin(404)
       ELSE IF i = 0 THEN fin(404)
       ELSE req' = [req EXCEPT ![r] =
                 [Begin("updateCartItem", u) EXCEPT
                    !.arg = [a EXCEPT !.product = carts[c].items[i].product],
                    !.cid = c, !.pos = i, !.val = quantity,
                    !.write = IF carts[c].items[i].quantity = quantity
                              THEN "none" ELSE "set",
                    !.pc = "findProduct"]]
    /\ UNCHANGED <<stock, price, orders, carts, ledger>>

\* const product = await Product.findById(item.product); product.stock < quantity
updateCartItem_findById(r) ==
    /\ Continue(r, "updateCartItem", "findProduct")
    /\ IF req[r].arg.product \notin DOMAIN stock THEN Finish(r, 500)
       ELSE IF insufficient(stock[req[r].arg.product], req[r].val) THEN Finish(r, 400)
       ELSE req' = [req EXCEPT ![r].pc = "saveCart"]
    /\ UNCHANGED <<stock, price, orders, carts, ledger>>

updateCartItem_save(r) ==
    /\ Continue(r, "updateCartItem", "saveCart")
    /\ CartSave(r)
    /\ UNCHANGED <<stock, price, orders, ledger>>

(* ---------------------------- removeFromCart --------------------------- *)

removeFromCart(r, u, x) ==
    /\ Accept(r)
    /\ LET c == findOne(u)
           fin(code) == req' = [req EXCEPT ![r] =
                 Answered([Begin("removeFromCart", u) EXCEPT !.arg = x], code)] IN
       IF c = 0 THEN fin(404)
       ELSE IF Len(filter(carts[c].items, x)) = Len(carts[c].items) THEN fin(404)
       ELSE req' = [req EXCEPT ![r] =
                 [Begin("removeFromCart", u) EXCEPT !.arg = x,
                    !.cid = c, !.write = "all",
                    !.newitems = filter(carts[c].items, x), !.pc = "saveCart"]]
    /\ UNCHANGED <<stock, price, orders, carts, ledger>>

removeFromCart_save(r) ==
    /\ Continue(r, "removeFromCart", "saveCart")
    /\ CartSave(r)
    /\ UNCHANGED <<stock, price, orders, ledger>>

(* ------------------------------ clearCart ------------------------------ *)

clearCart(r, u) ==
    /\ Accept(r)
    /\ LET c == findOne(u) IN
       IF c = 0
       THEN req' = [req EXCEPT ![r] = Answered(Begin("clearCart", u), 404)]
       ELSE req' = [req EXCEPT ![r] =
                 [Begin("clearCart", u) EXCEPT
                    !.cid = c,
                    !.write = IF carts[c].items = <<>> THEN "none" ELSE "all",
                    !.pc = "saveCart"]]
    /\ UNCHANGED <<stock, price, orders, carts, ledger>>

clearCart_save(r) ==
    /\ Continue(r, "clearCart", "saveCart")
    /\ CartSave(r)
    /\ UNCHANGED <<stock, price, orders, ledger>>

(* ------------------------------- catalog ------------------------------- *)

\* productSchema.price: { type: Number, min: 0 }
PriceValid(v) == v >= 0

\* a collection without the document of product pid
without(f, pid) == [p \in DOMAIN f \ {pid} |-> f[p]]

\* productSchema.category: { type: String, required, enum: [...] }
Categories == {"Casual", "Party Wear"}

CategoryValid(c) == c \in Categories

\* the route is behind `protect, admin`; let product = await Product.findById(id)
updateProduct(r, u, pid, edit) ==
    /\ Accept(r)
    /\ LET rec == [Begin("updateProduct", u) EXCEPT
                     !.arg = [NoArg EXCEPT !.product = pid, !.kind = edit.field],
                     !.val = edit.value, !.category = edit.category]
           fin(code) == req' = [req EXCEPT ![r] = Answered(rec, code)] IN
       IF role(u) # "admin" THEN fin(403)
       ELSE IF pid \notin DOMAIN stock THEN fin(404)
       ELSE req' = [req EXCEPT ![r] = [rec EXCEPT !.pc = "update"]]
    /\ UNCHANGED <<stock, price, orders, carts, ledger>>

\* product = await Product.findByIdAndUpdate(id, productData,
\*   { new: true, runValidators: true }): null when the product is gone
\* This is a query, not a save: no hook of productSchema runs.
updateProduct_findByIdAndUpdate(r) ==
    /\ Resumed(r, "updateProduct", "update")
    /\ LET pid == req[r].arg.product
           v == req[r].val IN
       CASE req[r].arg.kind = "stock" ->
               IF ~StockValid(v)
               THEN Finish(r, 500) /\ UNCHANGED <<stock, price, ledger, details>>
               ELSE /\ stock' = IF pid \in DOMAIN stock
                                THEN [stock EXCEPT ![pid] = v] ELSE stock
                    /\ ledger' = IF pid \in DOMAIN stock
                                 THEN [ledger EXCEPT ![pid] = @ + v - stock[pid]]
                                 ELSE ledger
                    /\ Finish(r, 200)
                    /\ UNCHANGED <<price, details>>
         [] req[r].arg.kind = "price" ->
               IF ~PriceValid(v)
               THEN Finish(r, 500) /\ UNCHANGED <<stock, price, ledger, details>>
               ELSE /\ price' = IF pid \in DOMAIN price
                                THEN [price EXCEPT ![pid] = v] ELSE price
                    /\ Finish(r, 200)
                    /\ UNCHANGED <<stock, ledger, details>>
         [] req[r].arg.kind = "category" ->
               IF ~CategoryValid(req[r].category)
               THEN Finish(r, 500) /\ UNCHANGED <<stock, price, ledger, details>>
               ELSE /\ details' = IF pid \in DOMAIN details
                                  THEN [details EXCEPT ![pid].category =
                                                          req[r].category]
                                  ELSE details
                    /\ Finish(r, 200)
                    /\ UNCHANGED <<stock, price, ledger>>
    /\ UNCHANGED <<orders, carts, productCount, users>>

\* the route is behind `protect, admin`; const product = await Product.findById(id)
deleteProduct(r, u, pid) ==
    /\ Accept(r)
    /\ LET rec == [Begin("deleteProduct", u) EXCEPT
                     !.arg = [NoArg EXCEPT !.product = pid]]
           fin(code) == req' = [req EXCEPT ![r] = Answered(rec, code)] IN
       IF role(u) # "admin" THEN fin(403)
       ELSE IF pid \notin DOMAIN stock THEN fin(404)
       ELSE req' = [req EXCEPT ![r] = [rec EXCEPT !.pc = "delete"]]
    /\ UNCHANGED <<stock, price, orders, carts, ledger>>

\* await product.deleteOne(): a document deleteOne, for which productSchema
\* registers no hook (its delete hook is on the query findOneAndDelete)
deleteProduct_deleteOne(r) ==
    /\ Resumed(r, "deleteProduct", "delete")
    /\ stock' = without(stock, req[r].arg.product)
    /\ price' = without(price, req[r].arg.product)
    /\ details' = without(details, req[r].arg.product)
    /\ Finish(r, 200)
    /\ UNCHANGED <<orders, carts, ledger, productCount, users>>

(* ------------------------- products and hooks ------------------------- *)

\* the collection f with document v under id pid
with(f, pid, v) == [p \in DOMAIN f \cup {pid} |-> IF p = pid THEN v ELSE f[p]]

\* Product.countDocuments({ category: doc.category })
countDocuments(d, c) == Cardinality({p \in DOMAIN d : d[p].category = c})

\* the id of a new product document: ids are opaque, so one that no document
\* of the collection carries now
newId == CHOOSE p \in Products : p \notin DOMAIN stock

\* the route is behind `protect, admin`; with no uploaded files the body must
\* carry at least one image
createProduct(r, u, body) ==
    /\ Taken(r)
    /\ DOMAIN stock # Products
    /\ LET rec == [Begin("createProduct", u) EXCEPT !.category = body.category,
                                                   !.images = body.images]
           fin(code) == req' = [req EXCEPT ![r] = Answered(rec, code)] IN
       IF ~protect(u) THEN fin(401)
       ELSE IF role(u) # "admin" THEN fin(403)
       ELSE IF body.images = {} THEN fin(400)
       ELSE req' = [req EXCEPT ![r] = [rec EXCEPT !.pc = "create"]]
    /\ UNCHANGED <<stock, price, orders, carts, ledger, details, productCount,
                   users>>

\* const product = await Product.create(productData): validated, then inserted
createProduct_create(r) ==
    /\ Resumed(r, "createProduct", "create")
    /\ IF ~CategoryValid(req[r].category)
       THEN Finish(r, 500) /\ UNCHANGED <<stock, price, ledger, details>>
       ELSE LET pid == newId IN
            /\ stock' = with(stock, pid, 1)
            /\ price' = with(price, pid, 10)
            /\ ledger' = with(ledger, pid, 1)
            /\ details' = with(details, pid,
                   [category |-> req[r].category, images |-> req[r].images,
                    reviews |-> <<>>, numReviews |-> 0])
            /\ req' = [req EXCEPT ![r].arg.product = pid, ![r].pc = "count"]
    /\ UNCHANGED <<orders, carts, productCount, users>>

\* productSchema.post("save"):
\* const count = await Product.countDocuments({ category: doc.category })
postSave_countDocuments(r) ==
    /\ req[r].op \in {"createProduct", "deleteProductImage"}
    /\ req[r].pc = "count"
    /\ req' = [req EXCEPT ![r].rd = countDocuments(details, req[r].category),
                          ![r].pc = "recount"]
    /\ UNCHANGED <<stock, price, orders, carts, load, ledger, pre, details,
                   productCount, users>>

\* await Category.findOneAndUpdate({ name: doc.category }, { productCount: count })
\* and then the handler's response
postSave_findOneAndUpdate(r) ==
    /\ req[r].op \in {"createProduct", "deleteProductImage"}
    /\ req[r].pc = "recount"
    /\ productCount' = [productCount EXCEPT ![req[r].category] = req[r].rd]
    /\ Finish(r, IF req[r].op = "createProduct" THEN 201 ELSE 200)
    /\ UNCHANGED <<stock, price, orders, carts, load, ledger, pre, details, users>>

\* the route is behind `protect, admin`; url = "" is a body with no imageUrl
deleteProductImage(r, u, pid, url) ==
    /\ Taken(r)
    /\ LET rec == [Begin("deleteProductImage", u) EXCEPT
                     !.arg = [NoArg EXCEPT !.product = pid]]
           fin(code) == req' = [req EXCEPT ![r] = Answered(rec, code)] IN
       IF ~protect(u) THEN fin(401)
       ELSE IF role(u) # "admin" THEN fin(403)
       ELSE IF url = "" THEN fin(400)
       ELSE IF pid \notin DOMAIN details THEN fin(404)
       ELSE IF url \notin details[pid].images THEN fin(404)
       ELSE IF Cardinality(details[pid].images) <= 1 THEN fin(400)
       ELSE req' = [req EXCEPT ![r] = [rec EXCEPT
                       !.category = details[pid].category,
                       !.images = details[pid].images \ {url},
                       !.pc = "saveImage"]]
    /\ UNCHANGED <<stock, price, orders, carts, ledger, details, productCount,
                   users>>

\* product.images = product.images.filter(...); await product.save()
deleteProductImage_save(r) ==
    /\ Resumed(r, "deleteProductImage", "saveImage")
    /\ IF req[r].arg.product \notin DOMAIN details
       THEN Finish(r, 500) /\ UNCHANGED details
       ELSE /\ details' = [details EXCEPT ![req[r].arg.product].images =
                                             req[r].images]
            /\ req' = [req EXCEPT ![r].pc = "count"]
    /\ UNCHANGED <<stock, price, orders, carts, ledger, productCount, users>>

(* --------------------------- addProductReview -------------------------- *)

\* productSchema.reviews.rating: { type: Number, required: true, min: 1, max: 5 }
RatingValid(n) == n >= 1 /\ n <= 5

\* product.reviews.find((r) => r.user.toString() === req.user.id.toString())
alreadyReviewed(reviews, u) == \E i \in 1..Len(reviews) : reviews[i].user = u

\* the route is behind `protect`; rating = 0 is a body with no rating
addProductReview(r, u, pid, rating) ==
    /\ Taken(r)
    /\ LET rec == [Begin("addProductReview", u) EXCEPT
                     !.arg = [NoArg EXCEPT !.product = pid, !.quantity = rating]]
           fin(code) == req' = [req EXCEPT ![r] = Answered(rec, code)] IN
       IF ~protect(u) THEN fin(401)
       ELSE IF rating = 0 THEN fin(400)
       ELSE IF pid \notin DOMAIN details THEN fin(404)
       ELSE IF alreadyReviewed(details[pid].reviews, u) THEN fin(400)
       ELSE req' = [req EXCEPT ![r] = [rec EXCEPT
                       !.val = Len(details[pid].reviews) + 1,
                       !.pc = "saveReview"]]
    /\ UNCHANGED <<stock, price, orders, carts, ledger, details, productCount,
                   users>>

\* product.reviews.push(review); product.numReviews = product.reviews.length;
\* await product.save(): the review goes out as a $push onto the stored array,
\* numReviews as a $set of the length the handler saw
addProductReview_save(r) ==
    /\ Resumed(r, "addProductReview", "saveReview")
    /\ LET pid == req[r].arg.product IN
       IF pid \notin DOMAIN details \/ ~RatingValid(req[r].arg.quantity)
       THEN Finish(r, 500) /\ UNCHANGED details
       ELSE /\ details' = [details EXCEPT
                  ![pid].reviews = Append(@, [user |-> req[r].user,
                                              rating |-> req[r].arg.quantity]),
                  ![pid].numReviews = req[r].val]
            /\ Finish(r, 201)
    /\ UNCHANGED <<stock, price, orders, carts, ledger, productCount, users>>

(* ------------------------------ deleteUser ----------------------------- *)

\* status: { $in: ["Processing", "Confirmed", "Shipped", "In Transit"] }
Active == {"Processing", "Confirmed", "Shipped", "In Transit"}

\* Order.countDocuments({ user: id, status: { $in: [...] } })
activeOrders(os, id) ==
    Cardinality({i \in 1..Len(os) : os[i].user = id /\ os[i].status \in Active})

\* the route is behind `protect, admin`; const user = await User.findById(id)
deleteUser(r, u, id) ==
    /\ Taken(r)
    /\ LET rec == [Begin("deleteUser", u) EXCEPT
                     !.arg = [NoArg EXCEPT !.product = id]]
           fin(code) == req' = [req EXCEPT ![r] = Answered(rec, code)] IN
       IF ~protect(u) THEN fin(401)
       ELSE IF role(u) # "admin" THEN fin(403)
       ELSE IF id \notin users THEN fin(404)
       ELSE IF role(id) = "admin" THEN fin(400)
       ELSE req' = [req EXCEPT ![r] = [rec EXCEPT !.pc = "count"]]
    /\ UNCHANGED <<stock, price, orders, carts, ledger, details, productCount,
                   users>>

\* const activeOrders = await Order.countDocuments(...); if (activeOrders > 0) ...
deleteUser_countDocuments(r) ==
    /\ Resumed(r, "deleteUser", "count")
    /\ IF activeOrders(orders, req[r].arg.product) > 0
       THEN Finish(r, 400)
       ELSE req' = [req EXCEPT ![r].pc = "delete"]
    /\ UNCHANGED <<stock, price, orders, carts, ledger, details, productCount,
                   users>>

\* await user.deleteOne()
deleteUser_deleteOne(r) ==
    /\ Resumed(r, "deleteUser", "delete")
    /\ users' = users \ {req[r].arg.product}
    /\ Finish(r, 200)
    /\ UNCHANGED <<stock, price, orders, carts, ledger, details, productCount>>

(* ------------------------------ system --------------------------------- *)

Register(ids, p) ==
    {[NoArg EXCEPT !.kind = "item", !.id = i] : i \in ids}
       \cup {[NoArg EXCEPT !.kind = "product", !.product = q] : q \in p}

\* an order line as the client sends it: the name and the price are its own
Item(p, q) == [product |-> p, name |-> p, quantity |-> q, price |-> 10]

\* the products on sale when the server starts
Catalog ==
    [stock |-> [p \in Products |-> IF p = "p1" THEN 2 ELSE 1],
     price |-> [p \in Products |-> 10],
     details |-> [p \in Products |->
                    [category |-> "Casual",
                     images |-> IF p = "p1" THEN {"a", "b"} ELSE {"a"},
                     reviews |-> <<>>, numReviews |-> 0]]]

\* order requests, one at a time
OrderSeq ==
    [width |-> 1, answers |-> FALSE, staff |-> {}, wares |-> {}, edits |-> {},
     customers |-> {"u1"}, users |-> Users, payers |-> BOOLEAN,
     lists |-> {<<>>, <<Item("p1", 0)>>, <<Item("p1", 1)>>,
                <<Item("p1", 1), Item("p2", 2)>>},
     statuses |-> {"", "Confirmed", "Shipped", "In Transit", "Delivered",
                   "Cancelled"},
     shoppers |-> {}, pids |-> {}, quantities |-> {}, sizes |-> {}, colors |-> {}]

\* order requests, two at a time
OrderRace ==
    [OrderSeq EXCEPT !.width = 2, !.users = {"u1", "adm"}, !.payers = {TRUE},
                     !.lists = {<<Item("p1", 1)>>, <<Item("p1", 1), Item("p2", 2)>>},
                     !.statuses = {"Shipped", "Delivered"}]

\* cart requests, one at a time
CartSeq ==
    [width |-> 1, answers |-> FALSE, staff |-> {}, wares |-> {}, edits |-> {},
     customers |-> {}, users |-> {}, payers |-> {}, lists |-> {}, statuses |-> {},
     shoppers |-> {"u1"}, pids |-> ProductIds, quantities |-> {-1, 0, 1, 2, 3},
     sizes |-> {"S", "M"}, colors |-> {"red"}]

\* cart requests, two at a time
CartRace ==
    [CartSeq EXCEPT !.width = 2, !.answers = TRUE, !.pids = {"p1", NoProduct},
                    !.quantities = {0, 1}]

\* cart and order requests, two at a time
Mixed ==
    [width |-> 2, answers |-> FALSE, staff |-> {}, wares |-> {}, edits |-> {},
     customers |-> {"u1"}, users |-> {"u1", "adm"}, payers |-> {TRUE},
     lists |-> {<<Item("p2", 2)>>}, statuses |-> {"Shipped"},
     shoppers |-> {"u1"}, pids |-> {"p1"}, quantities |-> {1},
     sizes |-> {"S"}, colors |-> {"red"}]

Edit(f, v) == [field |-> f, value |-> v, category |-> "none"]

Move(c) == [field |-> "category", value |-> 0, category |-> c]

\* order requests and catalog edits by the staff, one at a time
OrderCatalog ==
    [OrderSeq EXCEPT !.users = {"u1", "adm"}, !.payers = {TRUE},
                     !.lists = {<<Item("p1", 1), Item("p2", 2)>>},
                     !.statuses = {"Shipped"},
                     !.staff = {"adm"}, !.wares = {"p2"},
                     !.edits = {Edit("price", 20), Edit("stock", 0),
                                Edit("stock", -1)}]

\* cart requests and catalog edits by the staff, one at a time
CartCatalog ==
    [CartSeq EXCEPT !.pids = {"p1"}, !.quantities = {0, 1, 2},
                    !.staff = {"adm"}, !.wares = {"p1"},
                    !.edits = {Edit("price", 20), Edit("stock", 1),
                               Edit("stock", -1)}]

\* catalog requests by the staff, one at a time
Shelf ==
    [OrderSeq EXCEPT !.staff = {"adm"}, !.wares = {"p1", "p2"},
                     !.edits = {Move("Party Wear"), Move("Toys"),
                                Edit("price", 20), Edit("stock", 0)}]

\* the bodies of createProduct: a category and the images
Bodies == {[category |-> c, images |-> i] :
              c \in {"Party Wear", "Toys"}, i \in {{}, {"a", "b"}}}

\* the imageUrl of deleteProductImage
Urls == {"", "a", "c"}

\* createOrder and deleteUser requests, two at a time
UserRace ==
    [OrderSeq EXCEPT !.width = 2, !.answers = TRUE, !.staff = {"adm", "u2"},
                     !.customers = {"u1", "u2"}, !.users = {"u1", "adm"},
                     !.lists = {<<Item("p1", 1)>>}]

\* addProductReview requests, two at a time
ReviewRace ==
    [OrderSeq EXCEPT !.width = 2, !.answers = TRUE, !.customers = {"u1", "u2"},
                     !.wares = {"p1", NoProduct}]

\* the rating of addProductReview
Ratings == {0, 5, 6}

Database ==
    /\ stock = Catalog.stock
    /\ price = Catalog.price
    /\ orders = <<>>
    /\ carts = <<>>
    /\ req = [r \in Slots |-> Idle]
    /\ ledger = stock
    /\ pre = NoSnapshot
    /\ details = Catalog.details
    /\ productCount = [c \in Categories |-> countDocuments(Catalog.details, c)]
    /\ users = Users

\* one await-to-await segment of some order handler in slot r
OrderStep(r) ==
    \/ \E u \in load.customers, items \in load.lists :
          createOrder(r, u, TRUE, items)
    \/ \E u \in load.customers : createOrder(r, u, FALSE, <<>>)
    \/ createOrder_findById(r)
    \/ createOrder_save(r)
    \/ \E u \in load.users, id \in 1..MaxOrders : cancelOrder(r, u, id)
    \/ cancelOrder_saveOrder(r)
    \/ cancelOrder_findById(r)
    \/ cancelOrder_save(r)
    \/ \E u \in load.users, id \in 1..MaxOrders, payer \in load.payers :
          updateOrderToPaid(r, u, id, payer)
    \/ updateOrderToPaid_save(r)
    \/ \E u \in load.users, id \in 1..MaxOrders, status \in load.statuses :
          updateOrderStatus(r, u, id, status)
    \/ updateOrderStatus_save(r)

\* one segment of some cart handler in slot r
CartStep(r) ==
    \/ \E u \in load.shoppers : getCart(r, u)
    \/ getCart_create(r)
    \/ \E u \in load.shoppers, pid \in load.pids, q \in load.quantities,
          size \in load.sizes, color \in load.colors :
          addToCart(r, u, pid, q, size, color)
    \/ addToCart_findOne(r)
    \/ addToCart_save(r)
    \/ \E u \in load.shoppers, id \in 1..MaxCartItems, q \in load.quantities :
          updateCartItem(r, u, id, q)
    \/ updateCartItem_findById(r)
    \/ updateCartItem_save(r)
    \/ \E u \in load.shoppers, x \in Register(1..MaxCartItems, load.pids) :
          removeFromCart(r, u, x)
    \/ removeFromCart_save(r)
    \/ \E u \in load.shoppers : clearCart(r, u)
    \/ clearCart_save(r)

\* one segment of some catalog handler in slot r
CatalogStep(r) ==
    \/ \E u \in load.staff, pid \in load.wares, edit \in load.edits :
          updateProduct(r, u, pid, edit)
    \/ updateProduct_findByIdAndUpdate(r)
    \/ \E u \in load.staff, pid \in load.wares : deleteProduct(r, u, pid)
    \/ deleteProduct_deleteOne(r)

\* one segment of a handler that creates a product or drops an image, or of
\* the hook its save runs
ProductStep(r) ==
    \/ \E u \in load.staff, body \in Bodies : createProduct(r, u, body)
    \/ createProduct_create(r)
    \/ \E u \in load.staff, pid \in load.wares, url \in Urls :
          deleteProductImage(r, u, pid, url)
    \/ deleteProductImage_save(r)
    \/ postSave_countDocuments(r)
    \/ postSave_findOneAndUpdate(r)

\* one segment of createOrder or of deleteUser in slot r
UserStep(r) ==
    \/ \E u \in load.customers, items \in load.lists :
          createOrder(r, u, TRUE, items)
    \/ createOrder_findById(r)
    \/ createOrder_save(r)
    \/ \E u \in load.staff, id \in load.users : deleteUser(r, u, id)
    \/ deleteUser_countDocuments(r)
    \/ deleteUser_deleteOne(r)

\* one segment of addProductReview in slot r
ReviewStep(r) ==
    \/ \E u \in load.customers, pid \in load.wares, rating \in Ratings :
          addProductReview(r, u, pid, rating)
    \/ addProductReview_save(r)

Next == \E r \in Slots : OrderStep(r) \/ CartStep(r)

NextProducts == \E r \in Slots : CatalogStep(r) \/ ProductStep(r)

NextUsers == \E r \in Slots : UserStep(r)

NextReviews == \E r \in Slots : ReviewStep(r)

NextOrderCatalog == \E r \in Slots : OrderStep(r) \/ CatalogStep(r)

NextCartCatalog == \E r \in Slots : CartStep(r) \/ CatalogStep(r)

NextOrders == \E r \in Slots : OrderStep(r)

NextCart == \E r \in Slots : CartStep(r)

Init == Database /\ load = Mixed

InitOrders == Database /\ load = OrderRace

InitSeq == Database /\ load = OrderSeq

InitCart == Database /\ load = CartRace

InitCartSeq == Database /\ load = CartSeq

InitOrderCatalog == Database /\ load = OrderCatalog

InitCartCatalog == Database /\ load = CartCatalog

InitProducts == Database /\ load = Shelf

InitUsers == Database /\ load = UserRace

InitReviews == Database /\ load = ReviewRace

\* cart and order requests interleaved at their awaits
Spec == Init /\ [][Next]_vars

\* order requests interleaved at their awaits
SpecOrders == InitOrders /\ [][NextOrders]_vars

\* order requests, each run to its response before the next is taken
SpecSeq == InitSeq /\ [][NextOrders]_vars

\* cart requests interleaved at their awaits
SpecCart == InitCart /\ [][NextCart]_vars

\* cart requests, each run to its response before the next is taken
SpecCartSeq == InitCartSeq /\ [][NextCart]_vars

\* order requests and catalog edits, each run to its response before the next
SpecOrderCatalog == InitOrderCatalog /\ [][NextOrderCatalog]_vars

\* cart requests and catalog edits, each run to its response before the next
SpecCartCatalog == InitCartCatalog /\ [][NextCartCatalog]_vars

\* catalog requests by the staff, each run to its response before the next
SpecProducts == InitProducts /\ [][NextProducts]_vars

\* createOrder and deleteUser requests interleaved at their awaits
SpecUsers == InitUsers /\ [][NextUsers]_vars

\* addProductReview requests interleaved at their awaits
SpecReviews == InitReviews /\ [][NextReviews]_vars

(* --------------------------- what is checked --------------------------- *)

\* the order the last request named, as the request found it
named == last.oid \in 1..Len(pre.orders)

target == pre.orders[last.oid]

stranger == target.user # last.user /\ last.user \notin Admins

\* C1: in every reachable state, whatever the interleaving of cart and order
\* requests, every product's persisted stock is at least 0
StockNeverNegative == \A p \in Products : stock[p] >= 0

\* a createOrder is about to save a negative stock while a cart exists
StockNeverNegative_witness ==
    /\ carts # <<>>
    /\ \E r \in Slots :
          /\ req[r].op = "createOrder"
          /\ req[r].pc = "save"
          /\ req[r].rd - req[r].items[req[r].idx].quantity < 0

\* C2: a createOrder either decrements every line's product and answers 201, or
\* answers an error and leaves every stock as the request found it
CreateOrderAllOrNothing ==
    replied("createOrder") =>
        \/ /\ last.resp = 201
           /\ last.oid \in 1..Len(orders)
           /\ \A p \in Products :
                 stock[p] = pre.stock[p] - SumQty(orders[last.oid].orderItems, p)
        \/ /\ last.resp # 201
           /\ stock = pre.stock

\* C3: once every createOrder and cancelOrder has answered, the stock is the
\* initial stock minus the committed plus the released quantities
StockUpdatesAtomic == (\A r \in Slots : free(r)) => stock = ledger

\* C4 as stated: cancelOrder on a Shipped or Delivered order answers 400 whoever
\* asks, and changes neither the order nor any stock
CancelShippedAnswers400 ==
    (replied("cancelOrder") /\ named /\ target.status \in {"Shipped", "Delivered"})
        => /\ last.resp = 400
           /\ orders = pre.orders
           /\ stock = pre.stock

\* C4: cancelOrder on a Shipped or Delivered order changes neither the order nor
\* any stock; it answers 400 to the owner and to an admin, 401 to anyone else
CancelShippedRejected ==
    (replied("cancelOrder") /\ named /\ target.status \in {"Shipped", "Delivered"})
        => /\ last.resp = IF stranger THEN 401 ELSE 400
           /\ orders = pre.orders
           /\ stock = pre.stock

\* an admin was refused the cancellation of a Delivered order
CancelShippedRejected_witness ==
    /\ replied("cancelOrder")
    /\ named
    /\ target.status = "Delivered"
    /\ last.user \in Admins
    /\ last.resp = 400

\* C5: a successful cancelOrder on a Processing or Confirmed order sets the
\* status to Cancelled and adds to each product's stock exactly the quantity the
\* order records for it
CancelRestoresStock ==
    (/\ replied("cancelOrder")
     /\ last.resp = 200
     /\ named
     /\ target.status \in {"Processing", "Confirmed"})
        => /\ orders[last.oid].status = "Cancelled"
           /\ \A p \in Products :
                 stock[p] = pre.stock[p] + SumQty(target.orderItems, p)

\* the owner cancelled a Confirmed order of two lines and both stocks rose
CancelRestoresStock_witness ==
    /\ replied("cancelOrder")
    /\ last.resp = 200
    /\ named
    /\ target.status = "Confirmed"
    /\ last.user = target.user
    /\ \A p \in Products : stock[p] > pre.stock[p]

\* C6: a request by someone who is neither the order's owner nor an admin
\* changes no field of the order and no stock
StrangerChangesNothing ==
    (/\ last.pc = "done"
     /\ last.op \in {"updateOrderToPaid", "updateOrderStatus", "cancelOrder"}
     /\ named
     /\ stranger)
        => /\ orders = pre.orders
           /\ stock = pre.stock

\* C7: a cart never holds two items with the same (product, size, color)
OneItemPerTuple ==
    \A c \in 1..Len(carts) :
        \A i, j \in 1..Len(carts[c].items) :
            i # j => Cardinality(matching(carts[c].items, carts[c].items[i])
                                 \cap {i, j}) = 1

\* C8: a successful addToCart for a tuple the cart holds with quantity q0 leaves
\* one item for the tuple, with quantity q0 + quantity, and as many items as before
MergeSumsQuantity ==
    (replied("addToCart") /\ last.resp = 200) =>
        \A i \in matching(before, last.arg) :
            /\ matching(after, last.arg) = {i}
            /\ after[i].quantity = before[i].quantity + last.arg.quantity
            /\ Len(after) = Len(before)

\* one more of an item was added to a cart that holds two different items
MergeSumsQuantity_witness ==
    /\ replied("addToCart")
    /\ last.resp = 200
    /\ last.arg.quantity = 1
    /\ Len(before) = 2
    /\ matching(before, last.arg) # {}

\* C9: addToCart answers 400 and changes neither the cart nor any stock when the
\* stock is below the quantity asked for, or below the quantity in the cart plus
\* the quantity asked for
InsufficientStockRejected ==
    (/\ replied("addToCart")
     /\ last.arg.product \in Products
     /\ \/ stock[last.arg.product] < last.arg.quantity
        \/ \E i \in matching(before, last.arg) :
              stock[last.arg.product] < before[i].quantity + last.arg.quantity)
        => /\ last.resp = 400
           /\ carts = pre.carts
           /\ stock = pre.stock

\* the stock covers the quantity asked for but not the sum with what the cart holds
InsufficientStockRejected_witness ==
    /\ replied("addToCart")
    /\ last.arg.product \in Products
    /\ stock[last.arg.product] >= last.arg.quantity
    /\ \E i \in matching(before, last.arg) :
          stock[last.arg.product] < before[i].quantity + last.arg.quantity
    /\ last.resp = 400

\* C10: every cart item's quantity is at least 1, and addToCart refuses a
\* quantity below 1 and leaves the cart as it was, for a new item and for a merge
AddToCartRejectsNonPositive ==
    /\ \A c \in 1..Len(carts) :
          \A i \in 1..Len(carts[c].items) : carts[c].items[i].quantity >= 1
    /\ (replied("addToCart") /\ last.arg.quantity < 1)
          => (last.resp # 200 /\ carts = pre.carts)

\* C11: a createOrder with a line that asks for more than the product's stock
\* fails and persists no order
OverdrawnOrderRefused ==
    (/\ replied("createOrder")
     /\ \E i \in 1..Len(last.items) :
           /\ last.items[i].product \in DOMAIN pre.stock
           /\ last.items[i].quantity > pre.stock[last.items[i].product])
        => /\ last.resp # 201
           /\ orders = pre.orders

\* C12: a createOrder with an empty or an absent item list answers 400, persists
\* no order and changes no stock
EmptyOrderRefused ==
    (replied("createOrder") /\ last.items = <<>>)
        => /\ last.resp = 400
           /\ orders = pre.orders
           /\ stock = pre.stock

\* C13: no updateOrderStatus, updateOrderToPaid or cancelOrder changes the
\* status of an order that is Delivered or Cancelled
TerminalStatusKept ==
    (/\ last.pc = "done"
     /\ last.op \in {"updateOrderStatus", "updateOrderToPaid", "cancelOrder"}
     /\ named
     /\ target.status \in {"Delivered", "Cancelled"})
        => orders[last.oid].status = target.status

\* C14: clearCart succeeds for every user, with or without a cart, and leaves the
\* user with an empty item list
ClearCartNeverFails ==
    replied("clearCart") =>
        /\ last.resp = 200
        /\ \E c \in 1..Len(carts) : carts[c].user = last.user
        /\ after = <<>>

\* the last request is a successful removeFromCart that names the key of the
\* addToCart that succeeded just before it
roundTrip ==
    /\ replied("removeFromCart")
    /\ last.resp = 200
    /\ pre.add # NoAdd
    /\ \/ last.arg.kind = "item" /\ last.arg.id = pre.add.id
       \/ last.arg.kind = "product" /\ last.arg.product = pre.add.arg.product

\* C15 as stated: addToCart then removeFromCart with the same key returns the
\* cart to the item count it had before the add, appended or merged
RoundTripAlways == roundTrip => Len(after) = pre.add.n

\* C15: the round trip returns the cart to its item count when the add appended
\* a new item and the remove names the item's id, or names the product id while
\* the cart holds no other item of that product
RoundTripAppended ==
    (/\ roundTrip
     /\ pre.add.appended
     /\ \/ last.arg.kind = "item"
        \/ \A i \in 1..Len(before) :
              before[i].product = last.arg.product => before[i].id = pre.add.id)
        => Len(after) = pre.add.n

\* an item was added next to one of another product and removed by product id
RoundTripAppended_witness ==
    /\ roundTrip
    /\ pre.add.appended
    /\ last.arg.kind = "product"
    /\ pre.add.n = 1
    /\ Len(after) = 1

\* C16: no user ever has two carts, and no getCart is answered with a failure
OneCartPerUser ==
    /\ \A c, d \in 1..Len(carts) : carts[c].user = carts[d].user => c = d
    /\ \A r \in Slots :
          (req[r].pc = "done" /\ req[r].op = "getCart") => req[r].resp = 200

\* C17: no step of any handler, catalog edits and deletions included, changes
\* the items a placed order records
OrderItemsFrozen ==
    [][\A i \in 1..Len(orders) :
          /\ i <= Len(orders')
          /\ orders'[i].orderItems = orders[i].orderItems]_vars

\* an order was paid and cancelled, one of its products was repriced and another
\* deleted, and it still records its lines
OrderItemsFrozen_witness ==
    /\ orders # <<>>
    /\ orders[1].isPaid
    /\ orders[1].status = "Cancelled"
    /\ Len(orders[1].orderItems) = 2
    /\ \E i \in 1..2 : orders[1].orderItems[i].product \notin DOMAIN stock

\* C18: updateCartItem sets the addressed item's quantity and nothing else when
\* quantity >= 1 and the stock covers it; otherwise it answers 400 (quantity < 1,
\* stock too low) or 404 (no cart, no such item) and leaves the cart unchanged,
\* also when the item's product is gone
UpdateCartItemContract ==
    replied("updateCartItem") =>
        LET q == last.arg.quantity
            hit == {i \in 1..Len(before) : before[i].id = last.arg.id}
            covered(i) == /\ before[i].product \in DOMAIN stock
                          /\ stock[before[i].product] >= q
        IN  IF last.resp = 200
            THEN /\ q >= 1
                 /\ \E i \in hit :
                       /\ covered(i)
                       /\ after = [before EXCEPT ![i].quantity = q]
            ELSE /\ carts = pre.carts
                 /\ last.resp \in {400, 404}
                 /\ q < 1 => last.resp = 400
                 /\ (q >= 1 /\ hit = {}) => last.resp = 404
                 /\ ~(q >= 1 /\ \E i \in hit : covered(i))

\* the item is one the parameter of the last removeFromCart names
addressed(item) ==
    \/ last.arg.kind = "item" /\ item.id = last.arg.id
    \/ last.arg.kind = "product" /\ item.product = last.arg.product

spared(item) == ~addressed(item)

\* C19: removeFromCart removes exactly the items whose id or product id is the
\* parameter and keeps the others in order; when none matches it answers 404 and
\* the cart is unchanged
RemoveExactlyMatching ==
    replied("removeFromCart") =>
        IF \E i \in 1..Len(before) : addressed(before[i])
        THEN /\ last.resp = 200
             /\ after = SelectSeq(before, spared)
        ELSE /\ last.resp = 404
             /\ carts = pre.carts

\* a product id removed one of two items
RemoveExactlyMatching_witness ==
    /\ replied("removeFromCart")
    /\ last.resp = 200
    /\ last.arg.kind = "product"
    /\ Len(before) = 2
    /\ Len(after) = 1

\* C20: updateOrderToPaid with a receipt succeeds on an existing order whatever
\* its status, sets isPaid and changes nothing else of the order and no stock;
\* on a missing order it answers 404 and changes nothing
PaidChangesOnlyPayment ==
    replied("updateOrderToPaid") =>
        /\ stock = pre.stock
        /\ IF named
           THEN last.arg.kind = "payer" =>
                   /\ last.resp = 200
                   /\ orders = [pre.orders EXCEPT ![last.oid].isPaid = TRUE]
           ELSE /\ last.resp = 404
                /\ orders = pre.orders

\* a Cancelled order was marked paid
PaidChangesOnlyPayment_witness ==
    /\ replied("updateOrderToPaid")
    /\ named
    /\ target.status = "Cancelled"
    /\ ~target.isPaid
    /\ last.resp = 200
    /\ orders[last.oid].isPaid

\* C21: an order whose status is Delivered has isDelivered = true
DeliveredIsMarked ==
    \A i \in 1..Len(orders) : orders[i].status = "Delivered" => orders[i].isDelivered

\* an order reached Delivered while another request was in flight
DeliveredIsMarked_witness ==
    /\ \E i \in 1..Len(orders) : orders[i].status = "Delivered"
    /\ \E r \in Slots : ~free(r)

\* C26: no step makes a paid order unpaid, and a new order starts unpaid and
\* Processing
PaidStaysPaid ==
    [][/\ \A i \in 1..Len(orders) :
             i <= Len(orders') /\ (orders[i].isPaid => orders'[i].isPaid)
       /\ \A i \in (Len(orders) + 1)..Len(orders') :
             ~orders'[i].isPaid /\ orders'[i].status = "Processing"]_vars

\* a paid order was shipped and is still paid
PaidStaysPaid_witness ==
    \E i \in 1..Len(orders) :
        orders[i].isPaid /\ orders[i].status = "Shipped"

\* the quantity of product p that the orders not Cancelled record
RECURSIVE Committed(_, _)
Committed(os, p) ==
    IF os = <<>> THEN 0
    ELSE (IF Head(os).status # "Cancelled" THEN SumQty(Head(os).orderItems, p) ELSE 0)
         + Committed(Tail(os), p)

\* C22: whenever no request is in flight, each product's stock plus the
\* quantities of it in the orders that are not Cancelled is its initial stock
StockConserved ==
    (\A r \in Slots : free(r)) =>
        \A p \in Products : stock[p] + Committed(orders, p) = Catalog.stock[p]

\* C23: a cancelOrder on an order that a cancelOrder has already cancelled
\* adds nothing back to any stock
ReleasedAtMostOnce ==
    (replied("cancelOrder") /\ named /\ target.released)
        => stock = pre.stock

\* C24: an updateOrderStatus that moves an order to Cancelled adds each of its
\* items' quantities back to the stock
StatusCancelReleases ==
    (/\ replied("updateOrderStatus")
     /\ named
     /\ target.status # "Cancelled"
     /\ orders[last.oid].status = "Cancelled")
        => \A p \in Products :
              stock[p] = pre.stock[p] + SumQty(target.orderItems, p)

\* C25: a cancelOrder on an order whose status has been Shipped at some point
\* fails and changes neither the order nor any stock
ShippedNeverCancelled ==
    (replied("cancelOrder") /\ named /\ target.shipped)
        => /\ last.resp # 200
           /\ orders = pre.orders
           /\ stock = pre.stock

\* C30: a successful addToCart for a tuple the cart holds changes that item's
\* quantity and nothing else: its recorded price, size, color and position and
\* every other item stay as they were, whatever the product's price is now
MergeChangesQuantityOnly ==
    (replied("addToCart") /\ last.resp = 200) =>
        \A i \in matching(before, last.arg) :
            after = [before EXCEPT ![i].quantity = after[i].quantity]

\* one more of the second item of a cart was added after its product was repriced
MergeChangesQuantityOnly_witness ==
    /\ replied("addToCart")
    /\ last.resp = 200
    /\ Len(before) = 2
    /\ 2 \in matching(before, last.arg)
    /\ after[2].quantity > before[2].quantity
    /\ price[last.arg.product] # before[2].price

\* C27: whenever no request is in flight, each category's productCount is the
\* number of products whose category it is
ProductCountExact ==
    (\A r \in Slots : free(r)) =>
        \A c \in Categories :
            productCount[c] = Cardinality({p \in DOMAIN details :
                                              details[p].category = c})

\* C28: every order in an active status belongs to a user that still exists,
\* so no deleteUser has deleted a user with such an order
ActiveOrderKeepsUser ==
    \A i \in 1..Len(orders) :
        orders[i].status \in {"Processing", "Confirmed", "Shipped", "In Transit"}
            => orders[i].user \in users

\* C29: a product holds at most one review per user, and its numReviews is the
\* number of reviews it stores
OneReviewPerUser ==
    \A p \in DOMAIN details :
        /\ \A i, j \in 1..Len(details[p].reviews) :
              details[p].reviews[i].user = details[p].reviews[j].user => i = j
        /\ details[p].numReviews = Len(details[p].reviews)

====
